---- MODULE Spec2Model ----
(***************************************************************************)
(* PaginationUI (src/components/PaginationUI.jsx): a React view that loads *)
(* a collection once on mount through useFetch/fetchData, keeps the load   *)
(* state in a reducer, keeps the page index in a separate useState cell    *)
(* and renders one of three regions plus pagination controls.              *)
(*                                                                         *)
(* JSON values are records [type, elems]: an array carries its elements,   *)
(* the other JSON values carry none.  Items are represented by their id.   *)
(* A nullable string is a sequence of length at most one: <<>> is null,    *)
(* <<m>> is the string m.                                                  *)
(***************************************************************************)
EXTENDS Integers, Sequences, FiniteSets, TLC

VARIABLES state, pagination, pc, view, outcome, trace, last

vars == <<state, pagination, pc, view, outcome, trace, last>>

\* ------------------------------------------------------------------ bounds
\* Largest number of items the endpoint answers with.
MaxItems == 21

\* ------------------------------------------------------------ JSON values
null == <<>>

Str(m) == <<m>>

TruthyNonNull(e) == e # null

\* JavaScript truthiness of a nullable string: null and "" are falsy.
Truthy(e) == e # null /\ e[1] # ""

Array(elems) == [type |-> "array", elems |-> elems]

NonArray(t) == [type |-> t, elems |-> <<>>]

Ascending(n) == [i \in 1..n |-> i]

Descending(n) == [i \in 1..n |-> n + 1 - i]

ArrayBodies == {Array(Ascending(n)) : n \in 0..MaxItems} \cup {Array(Descending(n)) : n \in 0..MaxItems}

NonArrayBodies == {NonArray("object"), NonArray("null")}

Bodies == ArrayBodies \cup NonArrayBodies

HttpErrorMessage == "Could not fetch data from server. Please try again later."

\* Messages carried by a rejected fetch() or a rejected response.json().
FailureMessages == {"Failed to fetch", "Unexpected token < in JSON at position 0", ""}

Messages == FailureMessages \cup {HttpErrorMessage}

\* ---------------------------------------------------------------- reducer
initialState == [data |-> Array(<<>>), isLoading |-> FALSE, error |-> null]

Action(t, d, e) == [type |-> t, data |-> d, error |-> e]

LOADING == Action("LOADING", Array(<<>>), null)

OK(d) == Action("OK", d, null)

ERROR(e) == Action("ERROR", Array(<<>>), e)

UNKNOWN == Action("RESET", Array(<<>>), null)

\* Actions whose type is none of LOADING, OK and ERROR, with any payload.
UnknownActions ==
    {Action(t, d, e) : t \in {"RESET", "loading"}, d \in {Array(<<>>), Array(<<1>>)}, e \in {null, Str("Failed to fetch")}}

\* The last call made on the reducer or on a click handler: the action
\* dispatched, the page index at the call and the handler's argument.
NoAction == Action("", Array(<<>>), null)

Call(name, action, page, num) == [call |-> name, action |-> action, page |-> page, num |-> num]

reducerErrorResetsData(s, action) ==
    CASE action.type = "LOADING" -> [s EXCEPT !.isLoading = TRUE, !.error = null]
      [] action.type = "OK" -> [s EXCEPT !.isLoading = FALSE, !.data = action.data, !.error = null]
      [] action.type = "ERROR" -> [s EXCEPT !.isLoading = FALSE, !.data = Array(<<>>), !.error = action.error]
      [] OTHER -> s

reducerDefaultResets(s, action) ==
    CASE action.type = "LOADING" -> [s EXCEPT !.isLoading = TRUE, !.error = null]
      [] action.type = "OK" -> [s EXCEPT !.isLoading = FALSE, !.data = action.data, !.error = null]
      [] action.type = "ERROR" -> [s EXCEPT !.isLoading = FALSE, !.error = action.error]
      [] OTHER -> initialState

reducerLoadingKeepsError(s, action) ==
    CASE action.type = "LOADING" -> [s EXCEPT !.isLoading = TRUE]
      [] action.type = "OK" -> [s EXCEPT !.isLoading = FALSE, !.data = action.data, !.error = null]
      [] action.type = "ERROR" -> [s EXCEPT !.isLoading = FALSE, !.error = action.error]
      [] OTHER -> s

reducerKeepsLoadingOnError(s, action) ==
    CASE action.type = "LOADING" -> [s EXCEPT !.isLoading = TRUE, !.error = null]
      [] action.type = "OK" -> [s EXCEPT !.isLoading = FALSE, !.data = action.data, !.error = null]
      [] action.type = "ERROR" -> [s EXCEPT !.error = action.error]
      [] OTHER -> s

reducer(s, action) ==
    CASE action.type = "LOADING" -> [s EXCEPT !.isLoading = TRUE, !.error = null]
      [] action.type = "OK" -> [s EXCEPT !.isLoading = FALSE, !.data = action.data, !.error = null]
      [] action.type = "ERROR" -> [s EXCEPT !.isLoading = FALSE, !.error = action.error]
      [] OTHER -> s

\* ------------------------------------------------------------ data loader
\* How the network call went: still pending, fetch() rejected, the response
\* had a non-success status, response.json() rejected, or the body parsed.
Pending == [kind |-> "pending", message |-> "", body |-> Array(<<>>)]

Rejected(m) == [kind |-> "rejected", message |-> m, body |-> Array(<<>>)]

NotOk == [kind |-> "notOk", message |-> "", body |-> Array(<<>>)]

BadJson(m) == [kind |-> "badJson", message |-> m, body |-> Array(<<>>)]

Parsed(b) == [kind |-> "parsed", message |-> "", body |-> b]

\* The value fetchData() resolves with, by outcome of the call.
fetchData(o) ==
    CASE o.kind = "notOk" -> [error |-> Str(HttpErrorMessage), data |-> Array(<<>>)]
      [] o.kind \in {"rejected", "badJson"} -> [error |-> Str(o.message), data |-> Array(<<>>)]
      [] OTHER -> [error |-> null, data |-> o.body]

\* ------------------------------------------------------ derived per render
itemsPerPage == 10

\* Math.ceil(n / d) for n >= 0, d > 0.
Ceil(n, d) == IF n % d = 0 THEN n \div d ELSE (n \div d) + 1

totalPagesFloor(s) == Len(s.data.elems) \div itemsPerPage

totalPages(s) == Ceil(Len(s.data.elems), itemsPerPage)

Min(a, b) == IF a < b THEN a ELSE b

Max(a, b) == IF a > b THEN a ELSE b

\* Array.prototype.slice(start, end) with 0-based, end-exclusive indices.
slice(arr, start, end) ==
    LET len == Len(arr)
        k == IF start < 0 THEN Max(len + start, 0) ELSE Min(start, len)
        final == IF end < 0 THEN Max(len + end, 0) ELSE Min(end, len)
        count == Max(final - k, 0)
    IN [i \in 1..count |-> arr[k + i]]

currentPageItemsZeroBased(s, p) == slice(s.data.elems, p * itemsPerPage, (p + 1) * itemsPerPage)

currentPageItems(s, p) == slice(s.data.elems, (p - 1) * itemsPerPage, p * itemsPerPage)

\* Array.from({ length: totalPages }, (_, index) => index + 1)
pageButtons(s) == [index \in 1..totalPages(s) |-> index]

\* Lines 47 and 69 run on every render and throw (or, for a non-array
\* object, line 69 throws) when state.data is not an array.
RenderThrows(s) == s.data.type # "array"

LoadingRendered(s) == s.isLoading

ErrorRendered(s) == Truthy(s.error)

ListRendered(s) == ~s.isLoading /\ ~Truthy(s.error)

PreviousDisabledZeroBased(p) == p = 0

PreviousDisabled(p) == p = 1

PreviousMarkedDisabled(p) == p = 1

NextDisabled(s, p) == p = totalPages(s)

NextMarkedDisabled(s, p) == p = totalPages(s)

handlePreviousUnguarded(p) == p - 1

handlePrevious(p) == IF p > 1 THEN p - 1 ELSE p

handleNextUnguarded(s, p) == p + 1

handleNext(s, p) == IF p < totalPages(s) THEN p + 1 ELSE p

handlePageClick(num) == num

\* ------------------------------------------------------------------- view
Init ==
    /\ state = initialState
    /\ pagination = 1
    /\ pc = "effect"
    /\ view = "mounted"
    /\ outcome = Pending
    /\ trace = <<>>
    /\ last = Call("none", NoAction, 1, 0)

\* The mount effect starts handleFetch: dispatch LOADING, call fetch().
RunEffect ==
    /\ pc = "effect"
    /\ view = "mounted"
    /\ state' = reducer(state, LOADING)
    /\ trace' = trace \o <<"LOADING", "fetch">>
    /\ pc' = "fetch"
    /\ last' = Call("dispatch", LOADING, pagination, 0)
    /\ UNCHANGED <<pagination, view, outcome>>

SettleOnTornDownView(o) ==
    LET r == fetchData(o)
        a == IF Truthy(r.error) THEN ERROR(r.error) ELSE OK(r.data)
        s2 == reducer(state, a)
    IN /\ outcome' = o
       /\ pc' = "done"
       /\ trace' = Append(trace, a.type)
       /\ last' = Call("dispatch", a, pagination, 0)
       /\ state' = s2
       /\ view' = IF view = "mounted" /\ RenderThrows(s2) THEN "crashed" ELSE view
       /\ UNCHANGED pagination

\* fetchData() resolves with the result for outcome o and handleFetch
\* dispatches ERROR or OK; the view re-renders if it is still mounted.
Settle(o) ==
    LET r == fetchData(o)
        a == IF Truthy(r.error) THEN ERROR(r.error) ELSE OK(r.data)
        s2 == reducer(state, a)
    IN /\ outcome' = o
       /\ pc' = "done"
       /\ trace' = Append(trace, a.type)
       /\ last' = Call("dispatch", a, pagination, 0)
       /\ IF view = "mounted"
             THEN /\ state' = s2
                  /\ view' = IF RenderThrows(s2) THEN "crashed" ELSE "mounted"
             ELSE UNCHANGED <<state, view>>
       /\ UNCHANGED pagination

FetchRejects ==
    /\ pc = "fetch"
    /\ \E m \in FailureMessages : Settle(Rejected(m))

FetchNotOkUncaught ==
    /\ pc = "fetch"
    /\ outcome' = NotOk
    /\ pc' = "done"
    /\ UNCHANGED <<state, pagination, view, trace, last>>

FetchNotOk ==
    /\ pc = "fetch"
    /\ Settle(NotOk)

FetchOk ==
    /\ pc = "fetch"
    /\ pc' = "json"
    /\ UNCHANGED <<state, pagination, view, outcome, trace, last>>

JsonRejects ==
    /\ pc = "json"
    /\ \E m \in FailureMessages : Settle(BadJson(m))

JsonResolves ==
    /\ pc = "json"
    /\ \E b \in Bodies : Settle(Parsed(b))

ControlsRendered == view = "mounted" /\ ListRendered(state)

ClickPreviousReloads ==
    /\ ControlsRendered
    /\ ~PreviousDisabled(pagination)
    /\ pagination' = handlePrevious(pagination)
    /\ last' = Call("handlePrevious", NoAction, pagination, 0)
    /\ pc' = "effect"
    /\ UNCHANGED <<state, view, outcome, trace>>

ClickPrevious ==
    /\ ControlsRendered
    /\ ~PreviousDisabled(pagination)
    /\ pagination' = handlePrevious(pagination)
    /\ last' = Call("handlePrevious", NoAction, pagination, 0)
    /\ UNCHANGED <<state, pc, view, outcome, trace>>

ClickNextReloads ==
    /\ ControlsRendered
    /\ ~NextDisabled(state, pagination)
    /\ pagination' = handleNext(state, pagination)
    /\ last' = Call("handleNext", NoAction, pagination, 0)
    /\ pc' = "effect"
    /\ UNCHANGED <<state, view, outcome, trace>>

ClickNext ==
    /\ ControlsRendered
    /\ ~NextDisabled(state, pagination)
    /\ pagination' = handleNext(state, pagination)
    /\ last' = Call("handleNext", NoAction, pagination, 0)
    /\ UNCHANGED <<state, pc, view, outcome, trace>>

ClickPageSetsLoading ==
    /\ ControlsRendered
    /\ \E num \in 1..Len(pageButtons(state)) :
          /\ pagination' = handlePageClick(pageButtons(state)[num])
          /\ last' = Call("handlePageClick", NoAction, pagination, pageButtons(state)[num])
    /\ state' = reducer(state, LOADING)
    /\ UNCHANGED <<pc, view, outcome, trace>>

ClickPage ==
    /\ ControlsRendered
    /\ \E num \in 1..Len(pageButtons(state)) :
          /\ pagination' = handlePageClick(pageButtons(state)[num])
          /\ last' = Call("handlePageClick", NoAction, pagination, pageButtons(state)[num])
    /\ UNCHANGED <<state, pc, view, outcome, trace>>

\* Teardown; pending passive effects are flushed before an unmount.
Unmount ==
    /\ view = "mounted"
    /\ pc # "effect"
    /\ view' = "unmounted"
    /\ UNCHANGED <<state, pagination, pc, outcome, trace, last>>

Next ==
    \/ RunEffect
    \/ FetchRejects
    \/ FetchNotOk
    \/ FetchOk
    \/ JsonRejects
    \/ JsonResolves
    \/ ClickPrevious
    \/ ClickNext
    \/ ClickPage
    \/ Unmount

Spec == Init /\ [][Next]_vars

\* ------------------------------------------- the reducer on its own
DispatchLoading ==
    /\ state' = reducer(state, LOADING)
    /\ last' = Call("dispatch", LOADING, pagination, 0)
    /\ UNCHANGED <<pagination, pc, view, outcome, trace>>

DispatchOk ==
    /\ \E d \in Bodies :
          /\ state' = reducer(state, OK(d))
          /\ last' = Call("dispatch", OK(d), pagination, 0)
    /\ UNCHANGED <<pagination, pc, view, outcome, trace>>

DispatchError ==
    /\ \E m \in Messages :
          /\ state' = reducer(state, ERROR(Str(m)))
          /\ last' = Call("dispatch", ERROR(Str(m)), pagination, 0)
    /\ UNCHANGED <<pagination, pc, view, outcome, trace>>

DispatchUnknown ==
    /\ \E a \in UnknownActions :
          /\ state' = reducer(state, a)
          /\ last' = Call("dispatch", a, pagination, 0)
    /\ UNCHANGED <<pagination, pc, view, outcome, trace>>

ReducerNext ==
    \/ DispatchLoading
    \/ DispatchOk
    \/ DispatchError
    \/ DispatchUnknown

ReducerSpec == Init /\ [][ReducerNext]_vars

\* ------------------------------------ the click handlers on their own
\* Any loaded item collection with any page index the view can hold for
\* it; the handlers are then called whatever the buttons' disabled state.
HandlerInit ==
    \E b \in ArrayBodies :
        /\ state = reducer(reducer(initialState, LOADING), OK(b))
        /\ pagination \in 1..Max(1, totalPages(state))
        /\ pc = "done"
        /\ view = "mounted"
        /\ outcome = Parsed(b)
        /\ trace = <<"LOADING", "fetch", "OK">>
        /\ last = Call("dispatch", OK(b), 1, 0)

CallPrevious ==
    /\ pagination' = handlePrevious(pagination)
    /\ last' = Call("handlePrevious", NoAction, pagination, 0)
    /\ UNCHANGED <<state, pc, view, outcome, trace>>

CallNext ==
    /\ pagination' = handleNext(state, pagination)
    /\ last' = Call("handleNext", NoAction, pagination, 0)
    /\ UNCHANGED <<state, pc, view, outcome, trace>>

CallPageClick ==
    /\ \E num \in 1..Len(pageButtons(state)) :
          /\ pagination' = handlePageClick(pageButtons(state)[num])
          /\ last' = Call("handlePageClick", NoAction, pagination, pageButtons(state)[num])
    /\ UNCHANGED <<state, pc, view, outcome, trace>>

HandlerNext ==
    \/ CallPrevious
    \/ CallNext
    \/ CallPageClick

HandlerSpec == HandlerInit /\ [][HandlerNext]_vars

\* ------------------------------------------- the view, call settling
\* A network call that is outstanding eventually settles and the awaiting
\* task is then resumed by the event loop.
FairSpec ==
    /\ Spec
    /\ WF_vars(RunEffect)
    /\ WF_vars(FetchRejects \/ FetchNotOk \/ FetchOk)
    /\ WF_vars(JsonRejects \/ JsonResolves)

\* ================================================================ claims
Regions(s) ==
    (IF LoadingRendered(s) THEN {"loading"} ELSE {}) \cup (IF ErrorRendered(s) THEN {"error"} ELSE {}) \cup (IF ListRendered(s) THEN {"list"} ELSE {})

\* C1: while the view is mounted exactly one of the loading indicator, the
\* error text and the list with its controls is rendered, and the error
\* text is never rendered together with the list.
ExactlyOneRegion ==
    view = "mounted" =>
        /\ Cardinality(Regions(state)) = 1
        /\ ~(ErrorRendered(state) /\ ListRendered(state))

ExactlyOneRegionWitness ==
    /\ view = "mounted"
    /\ pc = "done"
    /\ Regions(state) = {"error"}

\* C2: while the view is mounted, 1 <= PageIndex <= max(1, totalPages) with
\* totalPages computed from the currently loaded items.
PageIndexInRange ==
    view = "mounted" =>
        /\ 1 <= pagination
        /\ pagination <= Max(1, totalPages(state))

PageIndexInRangeWitness ==
    /\ view = "mounted"
    /\ pc = "done"
    /\ totalPages(state) = 3
    /\ pagination = 3

\* C3: whenever the controls are rendered, Next is enabled iff
\* PageIndex < totalPages, and with no items (totalPages = 0) both Previous
\* and Next are disabled.
NextEnabledIffBelowLast ==
    ControlsRendered =>
        /\ (~NextDisabled(state, pagination)) <=> (pagination < totalPages(state))
        /\ totalPages(state) = 0 =>
              PreviousDisabled(pagination) /\ NextDisabled(state, pagination)

\* C4: whenever the controls are rendered, Previous is enabled iff
\* PageIndex > 1 and it is marked disabled exactly when it is disabled.
PreviousEnabledIffAboveFirst ==
    ControlsRendered =>
        /\ (~PreviousDisabled(pagination)) <=> (pagination > 1)
        /\ PreviousMarkedDisabled(pagination) <=> PreviousDisabled(pagination)

PreviousEnabledIffAboveFirstWitness ==
    /\ ControlsRendered
    /\ pagination = 2
    /\ ~PreviousDisabled(pagination)

\* C5: totalPages is the ceiling of n / 10 (the least T with 10 * T >= n),
\* one numbered control is rendered for each page 1..totalPages, and with
\* n = 0 there is no page and no numbered control.
TotalPagesIsCeiling ==
    view = "mounted" =>
        LET n == Len(state.data.elems)
            T == totalPages(state)
        IN /\ T >= 0
           /\ 10 * T >= n
           /\ 10 * (T - 1) < n
           /\ n = 0 => T = 0
           /\ Len(pageButtons(state)) = T
           /\ \A i \in 1..T : pageButtons(state)[i] = i
           /\ n = 0 => pageButtons(state) = <<>>

TotalPagesIsCeilingWitness ==
    /\ ControlsRendered
    /\ Len(state.data.elems) = 2 * itemsPerPage + 1
    /\ Len(pageButtons(state)) = 3

RECURSIVE PagesUpTo(_, _)
PagesUpTo(s, k) == IF k = 0 THEN <<>> ELSE PagesUpTo(s, k - 1) \o currentPageItems(s, k)

\* C6: for every page p in 1..totalPages the visible slice is the items at
\* 0-based positions [(p-1)*10, p*10) in their order, has at most 10 items,
\* on the last page has n - (totalPages-1)*10 items, and the slices of the
\* pages 1..totalPages put one after the other are the item sequence.
SliceIsPage ==
    view = "mounted" =>
        LET items == state.data.elems
            n == Len(items)
            T == totalPages(state)
        IN /\ \A p \in 1..T :
                LET visible == currentPageItems(state, p)
                IN /\ Len(visible) <= 10
                   /\ Len(visible) = Min(p * 10, n) - (p - 1) * 10
                   /\ \A i \in 1..Len(visible) : visible[i] = items[(p - 1) * 10 + i]
                   /\ p = T => Len(visible) = n - (T - 1) * 10
           /\ PagesUpTo(state, T) = items

SliceIsPageWitness ==
    /\ ControlsRendered
    /\ Len(state.data.elems) = 2 * itemsPerPage + 1
    /\ state.data.elems[1] = 2 * itemsPerPage + 1
    /\ pagination = 3
    /\ Len(currentPageItems(state, pagination)) = 1

IsFailure(o) ==
    \/ o.kind \in {"rejected", "notOk", "badJson"}
    \/ o.kind = "parsed" /\ o.body.type # "array"

\* C7: whatever way the network call fails (rejection, non-success status,
\* unparseable body, parsed body that is not an item collection), a view
\* that is not torn down ends rendering the error text, and no fault
\* reaches its rendering.
FailuresEndInErrorState ==
    (pc = "done" /\ view # "unmounted" /\ IsFailure(outcome)) =>
        /\ view = "mounted"
        /\ Regions(state) = {"error"}

ExpectedResult(o) ==
    IF o.kind = "notOk" THEN [error |-> Str(HttpErrorMessage), data |-> Array(<<>>)]
    ELSE IF o.kind \in {"rejected", "badJson"} THEN [error |-> Str(o.message), data |-> Array(<<>>)]
    ELSE [error |-> null, data |-> o.body]

\* C8: the loader's result is fixed by the outcome of the call (fixed
\* message for a non-success status, the failure's message for a rejection
\* or an unparseable body, the parsed body otherwise), and after an error
\* result a view that is not torn down shows exactly that message and
\* neither list nor controls.
ResultIsShown ==
    (pc = "done" /\ view # "unmounted") =>
        /\ fetchData(outcome) = ExpectedResult(outcome)
        /\ fetchData(outcome).error # null =>
              /\ view = "mounted"
              /\ state.error = fetchData(outcome).error
              /\ Regions(state) = {"error"}

LoadSequences == {<<"LOADING", "fetch", "OK">>, <<"LOADING", "fetch", "ERROR">>}

IsPrefix(t, s) == Len(t) <= Len(s) /\ \A i \in 1..Len(t) : t[i] = s[i]

\* C9: per mounted view the dispatches and network calls made are, in
\* order, one LOADING, one network call and one OK or ERROR; no control
\* activation adds to them, and once the load has settled the load state
\* never changes.
LoadRunsOnce ==
    /\ [](\E s \in LoadSequences : IsPrefix(trace, s))
    /\ [](pc = "done" => trace \in LoadSequences)
    /\ [][pc = "done" => state' = state]_vars
    /\ [][pagination' # pagination => trace' = trace /\ state' = state]_vars

LoadRunsOnceWitness ==
    /\ pc = "done"
    /\ view = "mounted"
    /\ trace \in LoadSequences
    /\ pagination = 2

\* C10: in every load state reached from initialState by LOADING, OK and
\* ERROR transitions, isLoading and error are never both truthy.
NeverLoadingAndError == ~(state.isLoading /\ Truthy(state.error))

NeverLoadingAndErrorWitness ==
    /\ ~state.isLoading
    /\ Truthy(state.error)
    /\ Len(state.data.elems) > 0

\* C11: in every load state reached from initialState by LOADING, OK and
\* ERROR transitions, a non-null error implies that items is empty.
ErrorImpliesNoItems == state.error # null => state.data.elems = <<>>

\* C12: every reducer transition matches the table: LOADING gives
\* isLoading = true, error = null and the same items; OK(items) gives
\* isLoading = false, error = null and the payload as items; ERROR(m) gives
\* isLoading = false, error = m and the same items.
ReducerMatchesTable ==
    [][LET a == last'.action
       IN /\ a.type = "LOADING" =>
                /\ state'.isLoading = TRUE
                /\ state'.error = null
                /\ state'.data = state.data
          /\ a.type = "OK" =>
                /\ state'.isLoading = FALSE
                /\ state'.error = null
                /\ state'.data = a.data
          /\ a.type = "ERROR" =>
                /\ state'.isLoading = FALSE
                /\ state'.error = a.error
                /\ state'.data = state.data]_vars

ReducerMatchesTableWitness ==
    /\ last.call = "dispatch"
    /\ last.action.type = "ERROR"
    /\ state.error = last.action.error
    /\ ~state.isLoading
    /\ Len(state.data.elems) > 0

\* C13: an action whose type is none of LOADING, OK and ERROR leaves items,
\* isLoading and error as they were, however often it is applied.
UnknownActionIsIdentity ==
    [][last'.action.type \notin {"LOADING", "OK", "ERROR"} =>
          /\ state'.data = state.data
          /\ state'.isLoading = state.isLoading
          /\ state'.error = state.error]_vars

UnknownActionIsIdentityWitness ==
    /\ last.call = "dispatch"
    /\ last.action \in UnknownActions
    /\ last.action.data # state.data
    /\ last.action.error # state.error
    /\ state # initialState

\* C14: for every page index p and page count T, Previous sets the index to
\* p-1 when p > 1 and leaves it when p = 1, Next sets it to p+1 when p < T
\* and leaves it otherwise, and numbered control n sets it to n.
HandlersFollowTable ==
    [][LET p == pagination
           T == totalPages(state)
       IN /\ last'.page = p
          /\ last'.call = "handlePrevious" =>
                /\ p > 1 => pagination' = p - 1
                /\ p = 1 => pagination' = p
          /\ last'.call = "handleNext" =>
                /\ p < T => pagination' = p + 1
                /\ ~(p < T) => pagination' = p
          /\ last'.call = "handlePageClick" =>
                /\ last'.num \in 1..T
                /\ pagination' = last'.num]_vars

HandlersFollowTableWitness ==
    /\ last.call = "handlePageClick"
    /\ last.page = 1
    /\ last.num = 3
    /\ pagination = 3

Handlers == {"handlePrevious", "handleNext", "handlePageClick"}

\* C15: a Previous, Next or numbered-control activation leaves items,
\* isLoading and error unchanged, and a LOADING, OK or ERROR dispatch
\* leaves the page index unchanged.
IndependentOwnership ==
    [][/\ (last' # last /\ last'.call \in Handlers) => state' = state
       /\ pagination' # pagination => state' = state
       /\ trace' # trace => pagination' = pagination
       /\ state' # state => pagination' = pagination]_vars

IndependentOwnershipWitness ==
    /\ view = "mounted"
    /\ pc = "done"
    /\ trace[3] = "OK"
    /\ Len(state.data.elems) > itemsPerPage
    /\ last.call = "handlePageClick"
    /\ last.page = 1
    /\ pagination = 2

\* C16: with a network call that settles, a mounted view that shows the
\* loading indicator eventually has its load settled with isLoading false
\* (or has been torn down), and a mounted view whose load has settled, by
\* an OK or ERROR dispatch, never shows the loading indicator.
LoadingEnds ==
    /\ (view = "mounted" /\ state.isLoading) ~> (pc = "done" /\ (view = "unmounted" \/ ~state.isLoading))
    /\ [](pc = "done" /\ view = "mounted" => ~state.isLoading /\ trace \in LoadSequences)

LoadingEndsWitness ==
    /\ view = "mounted"
    /\ pc = "done"
    /\ ~state.isLoading
    /\ trace[3] = "OK"
    /\ Len(state.data.elems) > 0
    /\ pagination = 1

\* C17: from mount until the load settles, the first render included, no
\* pagination control is rendered.
NoControlsBeforeSettled == (view = "mounted" /\ pc # "done") => ~ControlsRendered

ErrorImpliesNoItemsInView ==
    state.error # null => (state.data = Array(<<>>) /\ totalPages(state) = 0)

ErrorImpliesNoItemsInViewWitness ==
    /\ pc = "done"
    /\ trace[3] = "ERROR"
    /\ state.error = Str(HttpErrorMessage)

\* C20: ERROR is dispatched iff the error returned by the loader is truthy
\* (neither null nor the empty string); a failure with an empty message
\* ends in the ok state with no items, list and controls rendered.
ErrorDispatchedIffTruthy ==
    pc = "done" =>
        LET r == fetchData(outcome)
        IN /\ (trace[3] = "ERROR") <=> (r.error # null /\ r.error # Str(""))
           /\ (trace[3] = "OK") <=> (r.error = null \/ r.error = Str(""))
           /\ (view = "mounted" /\ outcome.kind \in {"rejected", "badJson"} /\ outcome.message = "") =>
                 /\ state = [data |-> Array(<<>>), isLoading |-> FALSE, error |-> null]
                 /\ ControlsRendered

ErrorDispatchedIffTruthyWitness ==
    /\ pc = "done"
    /\ view = "mounted"
    /\ outcome.kind = "badJson"
    /\ outcome.message = ""
    /\ trace[3] = "OK"
    /\ ControlsRendered

====
